---- MODULE Spec2Model ----
(***************************************************************************)
(* The Reddit MCP server (src/server.py): the tool registry, the           *)
(* dispatcher handle_call_tool and the six tool handlers.                  *)
(*                                                                         *)
(* A text is the sequence of the string pieces the code concatenates into  *)
(* it, in order.  A handler is an operator of its argument mapping and of  *)
(* the answers of the Reddit service to the calls it issues; it yields the *)
(* outcome (a returned text or a raised exception) and the external calls  *)
(* it issued.  The handlers contain no await, so one invocation is one     *)
(* step of the server.                                                     *)
(***************************************************************************)
EXTENDS Integers, Sequences, FiniteSets, TLC

VARIABLES
    pc,       \* "idle": waiting for a request; "returned": a handler has ended
    req,      \* the request being served: tool name and argument mapping
    svc,      \* what the Reddit service answers to this invocation's calls
    calls,    \* the external calls the invocation issued, in order
    result    \* the outcome of the invocation

vars == <<pc, req, svc, calls, result>>

(***************************** bounds **************************************)
MaxPosts == 2
MaxLimit == 2
MaxComments == 3
MaxRules == 2
MaxMods == 2
LongThreadLen == 52
MixedThreadLen == 12
MaxTextLen == 502

(************************* python values ***********************************)
None == "<None>"
Truthy(v) == v # None /\ v # ""
Str(v) == IF v = None THEN "None" ELSE v

Min(a, b) == IF a < b THEN a ELSE b

\* dict.get(key, default)
Get(args, key, default) == IF key \in DOMAIN args THEN args[key] ELSE default

\* s[:n] of a string or a list
Slice(s, n) == SubSeq(s, 1, Min(n, Len(s)))

RECURSIVE Pad(_, _)
Pad(s, n) == IF Len(s) >= n THEN s ELSE Pad(s \o s, n)
\* a free text of n characters
FreeText(n) == SubSeq(Pad("abcdefg", n), 1, n)

(************************* outcomes ****************************************)
Exc(cls, msg) == [cls |-> cls, msg |-> msg]
NoExc == Exc("", "")
Return(text) == [kind |-> "return", text |-> text]
Raise(e) == [kind |-> "raise", exc |-> e]
\* an outcome whose last external call was attempted a second time
OutcomeRetried(out, cs) ==
    [out |-> out, calls |-> IF Len(cs) = 0 THEN cs ELSE Append(cs, cs[Len(cs)])]

Outcome(out, cs) == [out |-> out, calls |-> cs]

\* the exception classes with their base classes (each derives from Exception)
Bases(cls) ==
    CASE cls = "RedditAPIException" -> {"RedditAPIException", "PRAWException", "Exception"}
      [] cls = "PRAWException" -> {"PRAWException", "Exception"}
      [] OTHER -> {cls, "Exception"}

\* the exception names bound in the module's namespace
ModuleNames == {"RedditAPIException", "PRAWException", "Exception"}

(************************* the tool registry *******************************)
handle_list_tools ==
    << [name |-> "get_subreddit_posts", required |-> <<"subreddit">>,
        defaults |-> [sort |-> "hot", time_filter |-> "day", limit |-> 25]],
       [name |-> "get_post_details", required |-> <<"post_id">>,
        defaults |-> [include_comments |-> FALSE]],
       [name |-> "get_post_comments", required |-> <<"post_id">>,
        defaults |-> [sort |-> "best", limit |-> 50]],
       [name |-> "search_reddit", required |-> <<"query">>,
        defaults |-> [sort |-> "relevance", time_filter |-> "all", limit |-> 25]],
       [name |-> "get_user_profile", required |-> <<"username">>,
        defaults |-> [k \in {} |-> ""]],
       [name |-> "get_subreddit_info", required |-> <<"subreddit">>,
        defaults |-> [k \in {} |-> ""]] >>

(************************* rendering helpers *******************************)
TruncateInclusive(text, budget) ==
    IF Len(text) >= budget THEN Slice(text, budget) \o "..." ELSE text

\* text[:budget] + "..." if len(text) > budget else text
Truncate(text, budget) ==
    IF Len(text) > budget THEN Slice(text, budget) \o "..." ELSE text

(* IEEE-754 binary64 arithmetic; a significand is a little-endian sequence of
   limbs of 15 bits, a double is m * 2^(-s) with 2^52 <= m <= 2^53 *)
Limb == 2^15

RECURSIVE ToLimbs(_)
ToLimbs(n) == IF n = 0 THEN <<>> ELSE <<n % Limb>> \o ToLimbs(n \div Limb)

RECURSIVE FromLimbs(_)
FromLimbs(b) == IF Len(b) = 0 THEN 0 ELSE Head(b) + Limb * FromLimbs(Tail(b))

\* b * c + carry, from limb i on
RECURSIVE MulCarry(_, _, _, _)
MulCarry(b, c, i, carry) ==
    IF i > Len(b) THEN ToLimbs(carry)
    ELSE LET v == b[i] * c + carry
         IN  <<v % Limb>> \o MulCarry(b, c, i + 1, v \div Limb)

\* long division of the limbs i..1 of b by d
RECURSIVE DivFrom(_, _, _, _)
DivFrom(b, d, i, rem) ==
    IF i = 0 THEN [q |-> <<>>, r |-> rem]
    ELSE LET v == Limb * rem + b[i]
             lower == DivFrom(b, d, i - 1, v % d)
         IN  [q |-> Append(lower.q, v \div d), r |-> lower.r]

RECURSIVE Norm(_)
Norm(b) == IF Len(b) > 0 /\ b[Len(b)] = 0 THEN Norm(SubSeq(b, 1, Len(b) - 1)) ELSE b

\* the number of significant bits of b
BitLen(b) ==
    IF Len(b) = 0 THEN 0
    ELSE 15 * (Len(b) - 1) + CHOOSE j \in 1..15 : 2^(j - 1) <= b[Len(b)] /\ b[Len(b)] < 2^j

\* b / d rounded to the nearest integer, ties to even
Nearest(b, d) ==
    LET qr == DivFrom(b, d, Len(b), 0)
        up == 2 * qr.r > d \/ (2 * qr.r = d /\ qr.q[1] % 2 = 1)
    IN  Norm(IF up THEN MulCarry(qr.q, 1, 1, 1) ELSE qr.q)

\* the double nearest to ratio/1000, 0 < ratio <= 1000
Double(ratio) ==
    LET c == CHOOSE j \in 0..10 : ratio * 2^j >= 1000 /\ (j = 0 \/ ratio * 2^(j - 1) < 1000)
    IN  [m |-> Nearest(<<0, 0, 0>> \o ToLimbs(ratio * 2^(c + 7)), 1000), s |-> 52 + c]

\* x * 100, rounded to a double
Times100(x) ==
    LET product == Norm(MulCarry(x.m, 100, 1, 0))
        t == BitLen(product) - 53
    IN  [m |-> Nearest(product, 2^t), s |-> x.s - t]

\* int(x), x >= 0
Truncated(x) ==
    LET whole == x.s \div 15
    IN  IF whole >= Len(x.m) THEN 0
        ELSE FromLimbs(SubSeq(x.m, whole + 1, Len(x.m))) \div 2^(x.s % 15)

\* int(upvote_ratio*100), the ratio held in thousandths
Percent(ratio) == IF ratio = 0 THEN 0 ELSE Truncated(Times100(Double(ratio)))

YesNo(b) == IF b THEN "Yes" ELSE "No"

\* {x if x else '[deleted]'}
OrDeleted(author) == IF Truthy(author) THEN Str(author) ELSE "[deleted]"

(************************* get_subreddit_posts *****************************)
PostsFetchAlwaysFiltered(sort_method, time_filter, limit) ==
    IF sort_method \in {"new", "rising", "top"}
    THEN [op |-> sort_method, time_filter |-> time_filter, limit |-> limit]
    ELSE [op |-> "hot", time_filter |-> time_filter, limit |-> limit]

\* the listing call named after the sort method, whatever it is
PostsFetchBySortName(sort_method, time_filter, limit) ==
    IF sort_method = "top"
    THEN [op |-> "top", time_filter |-> time_filter, limit |-> limit]
    ELSE [op |-> sort_method, limit |-> limit]

\* the listing call chosen by the sort method
PostsFetch(sort_method, time_filter, limit) ==
    IF sort_method = "hot" THEN [op |-> "hot", limit |-> limit]
    ELSE IF sort_method = "new" THEN [op |-> "new", limit |-> limit]
    ELSE IF sort_method = "rising" THEN [op |-> "rising", limit |-> limit]
    ELSE IF sort_method = "top"
         THEN [op |-> "top", time_filter |-> time_filter, limit |-> limit]
    ELSE [op |-> "hot", limit |-> limit]

\* the lazy listing: the items it yields before it stops or raises
Yielded(w, limit) ==
    IF w.fail = "iter" /\ w.at <= limit
    THEN Slice(w.items, w.at - 1)
    ELSE Slice(w.items, limit)
ListingRaises(w, limit) == w.fail = "iter" /\ w.at <= limit

PostInfo(post) ==
    [title |-> post.title,
     author |-> IF Truthy(post.author) THEN Str(post.author) ELSE "[deleted]",
     score |-> post.score,
     upvote_ratio |-> post.upvote_ratio,
     num_comments |-> post.num_comments,
     url |-> post.url,
     permalink |-> "https://reddit.com" \o post.permalink,
     id |-> post.id,
     selftext |-> Truncate(post.selftext, 500),
     subreddit |-> Str(post.subreddit),
     flair |-> post.link_flair_text,
     over_18 |-> post.over_18]

PostSection(i, post) ==
    <<"### ", ToString(i), ". ", post.title, "\n">>
    \o <<"- **Author:** u/", post.author, "\n">>
    \o <<"- **Score:** ", ToString(post.score), " (",
         ToString(Percent(post.upvote_ratio)), "% upvoted)\n">>
    \o <<"- **Comments:** ", ToString(post.num_comments), "\n">>
    \o <<"- **URL:** ", post.url, "\n">>
    \o <<"- **Reddit Link:** ", post.permalink, "\n">>
    \o (IF Truthy(post.flair) THEN <<"- **Flair:** ", post.flair, "\n">> ELSE <<>>)
    \o (IF Truthy(post.selftext) THEN <<"- **Text:** ", post.selftext, "\n">> ELSE <<>>)
    \o <<"- **NSFW:** ", YesNo(post.over_18), "\n">>
    \o <<"- **Post ID:** ", post.id, "\n\n">>

RECURSIVE PostSections(_, _)
PostSections(results, n) ==
    IF n = 0 THEN <<>>
    ELSE PostSections(results, n - 1) \o PostSection(n, results[n])

PostsErrorUnnamed(subreddit_name, e) == <<"Error fetching posts: ", e.msg>>

PostsError(subreddit_name, e) ==
    <<"Error fetching posts from r/", subreddit_name, ": ", e.msg>>

get_subreddit_posts(args, w) ==
    IF "subreddit" \notin DOMAIN args
    THEN Outcome(Raise(Exc("KeyError", "'subreddit'")), <<>>)
    ELSE
    LET subreddit_name == args["subreddit"]
        sort_method == Get(args, "sort", "hot")
        time_filter == Get(args, "time_filter", "day")
        limit == Get(args, "limit", 25)
        open == [op |-> "subreddit", name |-> subreddit_name]
        fetch == PostsFetch(sort_method, time_filter, limit)
        posts == Yielded(w, limit)
        results == [i \in 1..Len(posts) |-> PostInfo(posts[i])]
        output == <<"## Posts from r/", subreddit_name, " (sorted by ", sort_method, ")\n\n">>
                  \o PostSections(results, Len(results))
    IN  IF w.fail = "open"
        THEN Outcome(Return(PostsError(subreddit_name, w.err)), <<open>>)
        ELSE IF ListingRaises(w, limit)
        THEN Outcome(Return(PostsError(subreddit_name, w.err)), <<open, fetch>>)
        ELSE Outcome(Return(output), <<open, fetch>>)

(************************* submissions *************************************)
\* sub in s
Contains(s, sub) ==
    \E i \in 1..(Len(s) - Len(sub) + 1) : SubSeq(s, i, i + Len(sub) - 1) = sub

\* the lookup chosen by the scheme of post_id instead of its domain
SubmissionFetchByScheme(post_id) ==
    IF Slice(post_id, 4) = "http"
    THEN [op |-> "submission", by |-> "url", value |-> post_id]
    ELSE [op |-> "submission", by |-> "id", value |-> post_id]

\* reddit.submission(url=post_id) or reddit.submission(id=post_id)
SubmissionFetch(post_id) ==
    IF Contains(post_id, "reddit.com")
    THEN [op |-> "submission", by |-> "url", value |-> post_id]
    ELSE [op |-> "submission", by |-> "id", value |-> post_id]

HasBody(comment) == comment.has_body

(************************* get_post_details ********************************)
DetailsHeader(submission) ==
    <<"## ", submission.title, "\n\n">>
    \o <<"**Author:** u/", OrDeleted(submission.author), "\n">>
    \o <<"**Subreddit:** r/", Str(submission.subreddit), "\n">>
    \o <<"**Score:** ", ToString(submission.score), " (",
         ToString(Percent(submission.upvote_ratio)), "% upvoted)\n">>
    \o <<"**Comments:** ", ToString(submission.num_comments), "\n">>
    \o <<"**Created:** ", ToString(submission.created_utc), "\n">>
    \o <<"**URL:** ", submission.url, "\n">>
    \o <<"**Permalink:** https://reddit.com", submission.permalink, "\n">>
    \o (IF Truthy(submission.link_flair_text)
        THEN <<"**Flair:** ", submission.link_flair_text, "\n">> ELSE <<>>)
    \o <<"**NSFW:** ", YesNo(submission.over_18), "\n\n">>
    \o (IF Truthy(submission.selftext)
        THEN <<"### Post Content\n", submission.selftext, "\n\n">> ELSE <<>>)

TopComment(i, comment) ==
    IF HasBody(comment)
    THEN <<"**", ToString(i), ".** u/", OrDeleted(comment.author), " ">>
         \o <<"(Score: ", ToString(comment.score), ")\n">>
         \o <<Truncate(comment.body, 300), "\n\n">>
    ELSE <<>>

\* for i, comment in enumerate(top, 1)
RECURSIVE TopComments(_, _)
TopComments(top, n) ==
    IF n = 0 THEN <<>> ELSE TopComments(top, n - 1) \o TopComment(n, top[n])

DetailsError(e) == <<"Error fetching post details: ", e.msg>>

get_post_details(args, w) ==
    IF "post_id" \notin DOMAIN args
    THEN Outcome(Raise(Exc("KeyError", "'post_id'")), <<>>)
    ELSE
    LET post_id == args["post_id"]
        include_comments == Get(args, "include_comments", FALSE)
        fetch == SubmissionFetch(post_id)
        more == [op |-> "replace_more", limit |-> 0]
        top == Slice(w.comments, 10)
    IN  IF w.fail = "open"
        THEN Outcome(Return(DetailsError(w.err)), <<fetch>>)
        ELSE IF ~include_comments
        THEN Outcome(Return(DetailsHeader(w.post)), <<fetch>>)
        ELSE IF w.fail = "comments"
        THEN Outcome(Return(DetailsError(w.err)), <<fetch, more>>)
        ELSE Outcome(Return(DetailsHeader(w.post) \o <<"### Top Comments\n\n">>
                            \o TopComments(top, Len(top))),
                     <<fetch, more>>)

(************************* get_post_comments *******************************)
Qualifies(comment) == HasBody(comment) /\ comment.body # "[deleted]"

CommentSection(comment_count, comment) ==
    <<"### Comment ", ToString(comment_count), "\n">>
    \o <<"**Author:** u/", OrDeleted(comment.author), "\n">>
    \o <<"**Score:** ", ToString(comment.score), "\n">>
    \o <<"**Content:** ", comment.body, "\n\n">>

\* the loop with a counter that every comment advances, rendered or not
RECURSIVE CommentLoopCountsSkipped(_, _, _, _)
CommentLoopCountsSkipped(comments, i, comment_count, limit) ==
    IF i > Len(comments) THEN <<>>
    ELSE IF comment_count >= limit THEN <<>>
    ELSE IF Qualifies(comments[i])
    THEN CommentSection(comment_count + 1, comments[i])
         \o CommentLoopCountsSkipped(comments, i + 1, comment_count + 1, limit)
    ELSE CommentLoopCountsSkipped(comments, i + 1, comment_count + 1, limit)

\* the loop over submission.comments, from position i on, comment_count rendered so far
RECURSIVE CommentLoop(_, _, _, _)
CommentLoop(comments, i, comment_count, limit) ==
    IF i > Len(comments) THEN <<>>
    ELSE IF comment_count >= limit THEN <<>>
    ELSE IF Qualifies(comments[i])
    THEN CommentSection(comment_count + 1, comments[i])
         \o CommentLoop(comments, i + 1, comment_count + 1, limit)
    ELSE CommentLoop(comments, i + 1, comment_count, limit)

CommentsError(e) == <<"Error fetching comments: ", e.msg>>

CommentsHeader(submission, sort_method) ==
    <<"## Comments for: ", submission.title, "\n\n">>
    \o <<"**Post by:** u/", OrDeleted(submission.author), " in r/",
         Str(submission.subreddit), "\n">>
    \o <<"**Total Comments:** ", ToString(submission.num_comments), "\n">>
    \o <<"**Sorted by:** ", sort_method, "\n\n">>

CommentsLimitDrifted(args) == Get(args, "limit", 25)

\* limit = args.get("limit", 50)
CommentsLimit(args) == Get(args, "limit", 50)

get_post_comments(args, w) ==
    IF "post_id" \notin DOMAIN args
    THEN Outcome(Raise(Exc("KeyError", "'post_id'")), <<>>)
    ELSE
    LET post_id == args["post_id"]
        sort_method == Get(args, "sort", "best")
        limit == CommentsLimit(args)
        fetch == SubmissionFetch(post_id)
        more == [op |-> "replace_more", limit |-> 0, comment_sort |-> sort_method]
        output == CommentsHeader(w.post, sort_method)
    IN  IF w.fail = "open"
        THEN Outcome(Return(CommentsError(w.err)), <<fetch>>)
        ELSE IF w.fail = "comments"
        THEN Outcome(Return(CommentsError(w.err)), <<fetch, more>>)
        ELSE Outcome(Return(output \o CommentLoop(w.comments, 1, 0, limit)),
                     <<fetch, more>>)

(************************* search_reddit ***********************************)
SearchInfo(post) ==
    [title |-> post.title,
     author |-> IF Truthy(post.author) THEN Str(post.author) ELSE "[deleted]",
     subreddit |-> Str(post.subreddit),
     score |-> post.score,
     num_comments |-> post.num_comments,
     url |-> post.url,
     permalink |-> "https://reddit.com" \o post.permalink,
     id |-> post.id,
     selftext |-> Truncate(post.selftext, 200)]

SearchSection(i, post) ==
    <<"### ", ToString(i), ". ", post.title, "\n">>
    \o <<"- **Subreddit:** r/", post.subreddit, "\n">>
    \o <<"- **Author:** u/", post.author, "\n">>
    \o <<"- **Score:** ", ToString(post.score), " | **Comments:** ",
         ToString(post.num_comments), "\n">>
    \o <<"- **URL:** ", post.url, "\n">>
    \o <<"- **Reddit Link:** ", post.permalink, "\n">>
    \o (IF Truthy(post.selftext) THEN <<"- **Preview:** ", post.selftext, "\n">> ELSE <<>>)
    \o <<"- **Post ID:** ", post.id, "\n\n">>

RECURSIVE SearchSections(_, _)
SearchSections(results, n) ==
    IF n = 0 THEN <<>>
    ELSE SearchSections(results, n - 1) \o SearchSection(n, results[n])

SearchError(e) == <<"Error searching Reddit: ", e.msg>>

SearchEmptyNever(results) == FALSE

\* if not results
SearchEmpty(results) == Len(results) = 0

search_reddit(args, w) ==
    IF "query" \notin DOMAIN args
    THEN Outcome(Raise(Exc("KeyError", "'query'")), <<>>)
    ELSE
    LET query == args["query"]
        subreddit_name == Get(args, "subreddit", None)
        sort_method == Get(args, "sort", "relevance")
        time_filter == Get(args, "time_filter", "all")
        limit == Get(args, "limit", 25)
        scoped == Truthy(subreddit_name)
        open == [op |-> "subreddit", name |-> IF scoped THEN subreddit_name ELSE "all"]
        search == [op |-> "search", query |-> query, sort |-> sort_method,
                   time_filter |-> time_filter, limit |-> limit]
        search_scope == IF scoped THEN <<"r/", subreddit_name>> ELSE <<"All of Reddit">>
        output == <<"## Search Results for '", query, "' in ">> \o search_scope \o <<"\n\n">>
                  \o <<"**Sort:** ", sort_method, " | **Time Filter:** ", time_filter,
                       " | **Limit:** ", ToString(limit), "\n\n">>
        posts == Yielded(w, limit)
        results == [i \in 1..Len(posts) |-> SearchInfo(posts[i])]
    IN  IF w.fail = "open"
        THEN Outcome(Return(SearchError(w.err)), <<open>>)
        ELSE IF ListingRaises(w, limit)
        THEN Outcome(Return(SearchError(w.err)), <<open, search>>)
        ELSE IF SearchEmpty(results)
        THEN Outcome(Return(<<"No results found for '", query, "'">>), <<open, search>>)
        ELSE Outcome(Return(output \o SearchSections(results, Len(results))),
                     <<open, search>>)

(************************* get_user_profile ********************************)
ProfileBlock(username, user) ==
    <<"## User Profile: u/", username, "\n\n">>
    \o <<"**Comment Karma:** ", ToString(user.comment_karma), "\n">>
    \o <<"**Link Karma:** ", ToString(user.link_karma), "\n">>
    \o <<"**Account Created:** ", ToString(user.created_utc), "\n">>
    \o <<"**Has Verified Email:** ", YesNo(user.has_verified_email), "\n">>
    \o <<"**Is Employee:** ", YesNo(user.is_employee), "\n">>
    \o <<"**Is Gold:** ", YesNo(user.is_gold), "\n">>
    \o <<"**Is Mod:** ", YesNo(user.is_mod), "\n">>
    \o (IF user.subreddit.present
        THEN <<"**Profile Description:** ", user.subreddit.public_description, "\n">>
        ELSE <<>>)

RecentLine(i, post) ==
    <<ToString(i), ". **", post.title, "** in r/", Str(post.subreddit), " ">>
    \o <<"(Score: ", ToString(post.score), ", Comments: ",
         ToString(post.num_comments), ")\n">>

RECURSIVE RecentLines(_, _)
RecentLines(posts, n) ==
    IF n = 0 THEN <<>> ELSE RecentLines(posts, n - 1) \o RecentLine(n, posts[n])

RecentPostsUnguarded(recent) ==
    LET posts == Yielded(recent, 10) IN RecentLines(posts, Len(posts))

\* the inner try block over user.submissions.new(limit=10)
RecentPosts(recent) ==
    LET posts == Yielded(recent, 10)
    IN  RecentLines(posts, Len(posts))
        \o (IF recent.fail = "open" \/ ListingRaises(recent, 10)
            THEN <<"Recent posts not available\n">> ELSE <<>>)

ProfileError(e) == <<"Error fetching user profile: ", e.msg>>

get_user_profile(args, w) ==
    IF "username" \notin DOMAIN args
    THEN Outcome(Raise(Exc("KeyError", "'username'")), <<>>)
    ELSE
    LET username == args["username"]
        open == [op |-> "redditor", name |-> username]
        new == [op |-> "submissions.new", limit |-> 10]
    IN  IF w.fail = "open"
        THEN Outcome(Return(ProfileError(w.err)), <<open>>)
        ELSE Outcome(Return(ProfileBlock(username, w.user)
                            \o <<"\n### Recent Posts (Last 10)\n\n">>
                            \o RecentPosts(w.recent)),
                     <<open, new>>)

(************************* get_subreddit_info ******************************)
Pad3(n) == IF n < 10 THEN "00" \o ToString(n)
           ELSE IF n < 100 THEN "0" \o ToString(n) ELSE ToString(n)

\* f"{n:,}"
RECURSIVE Thousands(_)
Thousands(n) ==
    IF n < 1000 THEN ToString(n) ELSE Thousands(n \div 1000) \o "," \o Pad3(n % 1000)

InfoBlock(subreddit_name, subreddit) ==
    <<"## r/", subreddit_name, "\n\n">>
    \o <<"**Display Name:** ", subreddit.display_name, "\n">>
    \o <<"**Title:** ", subreddit.title, "\n">>
    \o <<"**Subscribers:** ", Thousands(subreddit.subscribers), "\n">>
    \o <<"**Active Users:** ", ToString(subreddit.active_user_count), "\n">>
    \o <<"**Created:** ", ToString(subreddit.created_utc), "\n">>
    \o <<"**NSFW:** ", YesNo(subreddit.over18), "\n">>
    \o <<"**Type:** ", subreddit.subreddit_type, "\n">>
    \o (IF Truthy(subreddit.public_description)
        THEN <<"\n**Description:**\n", subreddit.public_description, "\n">> ELSE <<>>)

RuleLine(i, rule) ==
    <<ToString(i), ". **", rule.short_name, "**: ", Slice(rule.description, 200), "...\n">>

RECURSIVE RuleLines(_, _)
RuleLines(rules, n) ==
    IF n = 0 THEN <<>> ELSE RuleLines(rules, n - 1) \o RuleLine(n, rules[n])

\* the first inner try block: what it has appended to output when it ends
RulesSection(r) ==
    IF r.fail = "open" THEN <<>>
    ELSE IF Len(r.items) = 0 THEN <<>>
    ELSE IF r.fail = "iter"
    THEN <<"\n### Rules\n\n">> \o RuleLines(r.items, r.at - 1)
    ELSE <<"\n### Rules\n\n">> \o RuleLines(r.items, Len(r.items))

\* ", ".join(names)
RECURSIVE Join(_)
Join(names) ==
    IF Len(names) = 0 THEN ""
    ELSE IF Len(names) = 1 THEN names[1]
    ELSE names[1] \o ", " \o Join(Tail(names))

\* [str(mod) for mod in mods if str(mod) != 'None']
RECURSIVE ModNames(_)
ModNames(mods) ==
    IF Len(mods) = 0 THEN <<>>
    ELSE IF Str(Head(mods)) # "None" THEN <<Str(Head(mods))>> \o ModNames(Tail(mods))
    ELSE ModNames(Tail(mods))

\* the second inner try block
ModeratorsSection(m) ==
    IF m.fail = "open" \/ ListingRaises(m, 10) THEN <<>>
    ELSE LET mods == Yielded(m, 10)
         IN  IF Len(mods) = 0 THEN <<>>
             ELSE <<"\n### Moderators\n", Join(ModNames(mods)) \o "\n">>

InfoError(e) == <<"Error fetching subreddit info: ", e.msg>>

get_subreddit_info(args, w) ==
    IF "subreddit" \notin DOMAIN args
    THEN Outcome(Raise(Exc("KeyError", "'subreddit'")), <<>>)
    ELSE
    LET subreddit_name == args["subreddit"]
        open == [op |-> "subreddit", name |-> subreddit_name]
        rules == [op |-> "rules"]
        moderator == [op |-> "moderator", limit |-> 10]
    IN  IF w.fail = "open"
        THEN Outcome(Return(InfoError(w.err)), <<open>>)
        ELSE Outcome(Return(InfoBlock(subreddit_name, w.subreddit)
                            \o RulesSection(w.rules)
                            \o ModeratorsSection(w.mods)),
                     <<open, rules, moderator>>)

(************************* the dispatcher **********************************)
\* the except clauses, tried in order on the exception e the try block raised
Except(e) ==
    IF "RedditAPIException" \in Bases(e.cls)
    THEN Return(<<"Reddit API Error: ", e.msg>>)
    ELSE IF "RedditException" \notin ModuleNames
    THEN Raise(Exc("NameError", "name 'RedditException' is not defined"))
    ELSE IF "RedditException" \in Bases(e.cls)
    THEN Return(<<"Reddit Error: ", e.msg>>)
    ELSE Return(<<"Error: ", e.msg>>)

\* the try block: the handler chosen by the tool name
Dispatch(name, arguments, w) ==
    IF name = "get_subreddit_posts" THEN get_subreddit_posts(arguments, w)
    ELSE IF name = "get_post_details" THEN get_post_details(arguments, w)
    ELSE IF name = "get_post_comments" THEN get_post_comments(arguments, w)
    ELSE IF name = "search_reddit" THEN search_reddit(arguments, w)
    ELSE IF name = "get_user_profile" THEN get_user_profile(arguments, w)
    ELSE IF name = "get_subreddit_info" THEN get_subreddit_info(arguments, w)
    ELSE Outcome(Raise(Exc("ValueError", "Unknown tool: " \o name)), <<>>)

handle_call_tool(name, arguments, w) ==
    LET r == Dispatch(name, arguments, w)
    IN  IF r.out.kind = "raise" THEN Outcome(Except(r.out.exc), r.calls) ELSE r

(************************* inputs ******************************************)
NoArgs == [k \in {} |-> ""]
Opt(key, vals) == {NoArgs} \cup {key :> v : v \in vals}
SeqsUpTo(S, n) == UNION {[1..k -> S] : k \in 0..n}

Errors == {Exc("RedditAPIException", "private"), Exc("NotFound", "received 404 HTTP response")}

Post(n, author, flair, textlen, nsfw) ==
    [title |-> "title" \o ToString(n), author |-> author, score |-> 10 * n,
     upvote_ratio |-> 870, num_comments |-> n, created_utc |-> 1700000000 + n,
     url |-> "https://example.com/" \o ToString(n),
     permalink |-> "/r/python/comments/p" \o ToString(n) \o "/",
     id |-> "p" \o ToString(n), selftext |-> FreeText(textlen), subreddit |-> "python",
     link_flair_text |-> flair, over_18 |-> nsfw]

SamplePosts == {Post(1, "alice", "News", 3, FALSE), Post(2, None, None, 0, TRUE)}

Comment(author, score, textlen) ==
    [has_body |-> TRUE, author |-> author, score |-> score, body |-> FreeText(textlen)]
DeletedComment == [has_body |-> TRUE, author |-> None, score |-> 0, body |-> "[deleted]"]
MoreComments == [has_body |-> FALSE, author |-> None, score |-> 0, body |-> ""]

SampleComments == {Comment("bob", 5, 4), Comment("carol", 7, 9), DeletedComment, MoreComments}

\* the answers of a lazy listing of the given items: complete, or raising when it is
\* requested, or raising when the item at some position is asked for
Listings(itemSeqs) ==
    {[fail |-> "none", at |-> 0, err |-> NoExc, items |-> s] : s \in itemSeqs}
    \cup {[fail |-> "open", at |-> 0, err |-> e, items |-> <<>>] : e \in Errors}
    \cup UNION {{[fail |-> "iter", at |-> k, err |-> e, items |-> s] :
                    k \in 1..(Len(s) + 1), e \in Errors} : s \in itemSeqs}

\* the answers of a list whose items are rendered one by one: rendering item k may raise
Lists(itemSeqs) ==
    {[fail |-> "none", at |-> 0, err |-> NoExc, items |-> s] : s \in itemSeqs}
    \cup {[fail |-> "open", at |-> 0, err |-> e, items |-> <<>>] : e \in Errors}
    \cup UNION {{[fail |-> "iter", at |-> k, err |-> e, items |-> s] :
                    k \in 1..Len(s), e \in Errors} : s \in itemSeqs}

Limits == 0..MaxLimit
TimeFilters == {"day", "week"}
PostIds == {"abc123", "https://www.reddit.com/r/python/comments/abc123/t/",
            "https://redd.it/abc123"}

PostsArgs ==
    {a @@ b @@ c @@ d : a \in Opt("subreddit", {"python"}),
                        b \in Opt("sort", {"hot", "new", "rising", "top", "controversial"}),
                        c \in Opt("time_filter", TimeFilters),
                        d \in Opt("limit", Limits)}
PostsAnswers == Listings(SeqsUpTo(SamplePosts, MaxPosts))

\* the answers to a submission lookup and to its comment forest
Submissions(posts, commentSeqs) ==
    {[fail |-> "none", err |-> NoExc, post |-> p, comments |-> cs] :
        p \in posts, cs \in commentSeqs}
    \cup {[fail |-> "open", err |-> e, post |-> p, comments |-> <<>>] :
        e \in Errors, p \in posts}
    \cup {[fail |-> "comments", err |-> e, post |-> p, comments |-> <<>>] :
        e \in Errors, p \in posts}

DetailsArgs ==
    {a @@ b : a \in Opt("post_id", PostIds), b \in Opt("include_comments", BOOLEAN)}
CommentsArgs ==
    {a @@ b @@ c : a \in Opt("post_id", PostIds), b \in Opt("sort", {"best", "top"}),
                   c \in Opt("limit", Limits)}
\* a thread longer than every default limit
LongThread == [i \in 1..LongThreadLen |-> Comment("bob", i, 4)]
\* a thread whose first node exposes no body, followed by comments that do
MixedThread ==
    [i \in 1..MixedThreadLen |-> IF i = 1 THEN MoreComments ELSE Comment("carol", i, 4)]
SubmissionAnswers ==
    Submissions(SamplePosts,
                SeqsUpTo(SampleComments, MaxComments) \cup {LongThread, MixedThread})

SearchArgs ==
    {a @@ b @@ c @@ d @@ e : a \in Opt("query", {"tla"}),
                             b \in Opt("subreddit", {"python", ""}),
                             c \in Opt("sort", {"relevance", "top"}),
                             d \in Opt("time_filter", {"all", "week"}),
                             e \in Opt("limit", Limits)}

User(description, verified) ==
    [comment_karma |-> 1200, link_karma |-> 34, created_utc |-> 1600000000,
     has_verified_email |-> verified, is_employee |-> FALSE, is_gold |-> FALSE,
     is_mod |-> TRUE,
     subreddit |-> [present |-> description # "", public_description |-> description]]
SampleUsers == {User("about me", TRUE), User("", FALSE)}

ProfileArgs == Opt("username", {"spez"})
ProfileAnswers ==
    {[fail |-> "none", err |-> NoExc, user |-> u, recent |-> r] :
        u \in SampleUsers, r \in Listings(SeqsUpTo(SamplePosts, MaxPosts))}
    \cup {[fail |-> "open", err |-> e, user |-> User("", FALSE),
           recent |-> [fail |-> "none", at |-> 0, err |-> NoExc, items |-> <<>>]] :
        e \in Errors}

Subreddit(description, subscribers) ==
    [display_name |-> "python", title |-> "Python", subscribers |-> subscribers,
     active_user_count |-> 250, created_utc |-> 1200000000, over18 |-> FALSE,
     subreddit_type |-> "public", public_description |-> description]
SampleSubreddits == {Subreddit("News about Python", 1234567), Subreddit("", 999)}

Rule(n, textlen) ==
    [short_name |-> "rule" \o ToString(n), description |-> FreeText(textlen)]
SampleRules == {Rule(1, 12), Rule(2, 201)}
SampleMods == {"modA", None}

InfoArgs == Opt("subreddit", {"python"})
InfoAnswers ==
    {[fail |-> "none", err |-> NoExc, subreddit |-> sr, rules |-> r, mods |-> m] :
        sr \in SampleSubreddits,
        r \in Lists(SeqsUpTo(SampleRules, MaxRules)),
        m \in Listings(SeqsUpTo(SampleMods, MaxMods))}
    \cup {[fail |-> "open", err |-> e, subreddit |-> Subreddit("", 0),
           rules |-> [fail |-> "none", at |-> 0, err |-> NoExc, items |-> <<>>],
           mods |-> [fail |-> "none", at |-> 0, err |-> NoExc, items |-> <<>>]] :
        e \in Errors}

(************************* the server **************************************)
Idle == [kind |-> "none"]
NoRequest == [name |-> "", arguments |-> NoArgs]

Init ==
    /\ pc = "idle"
    /\ req = NoRequest
    /\ svc = Idle
    /\ calls = <<>>
    /\ result = Idle

\* one tools/list request served by handle_list_tools
ListTools ==
    /\ pc = "idle"
    /\ req' = [name |-> "tools/list", arguments |-> NoArgs]
    /\ svc' = Idle
    /\ calls' = <<>>
    /\ result' = [kind |-> "tools", tools |-> handle_list_tools]
    /\ pc' = "returned"

\* one tools/call request served by handle_call_tool, per tool
CallGetSubredditPosts ==
    /\ pc = "idle"
    /\ \E a \in PostsArgs, w \in PostsAnswers :
        LET r == handle_call_tool("get_subreddit_posts", a, w)
        IN  /\ req' = [name |-> "get_subreddit_posts", arguments |-> a]
            /\ svc' = w
            /\ calls' = r.calls
            /\ result' = r.out
            /\ pc' = "returned"

CallGetPostDetails ==
    /\ pc = "idle"
    /\ \E a \in DetailsArgs, w \in SubmissionAnswers :
        LET r == handle_call_tool("get_post_details", a, w)
        IN  /\ req' = [name |-> "get_post_details", arguments |-> a]
            /\ svc' = w
            /\ calls' = r.calls
            /\ result' = r.out
            /\ pc' = "returned"

CallGetPostComments ==
    /\ pc = "idle"
    /\ \E a \in CommentsArgs, w \in SubmissionAnswers :
        LET r == handle_call_tool("get_post_comments", a, w)
        IN  /\ req' = [name |-> "get_post_comments", arguments |-> a]
            /\ svc' = w
            /\ calls' = r.calls
            /\ result' = r.out
            /\ pc' = "returned"

CallSearchReddit ==
    /\ pc = "idle"
    /\ \E a \in SearchArgs, w \in PostsAnswers :
        LET r == handle_call_tool("search_reddit", a, w)
        IN  /\ req' = [name |-> "search_reddit", arguments |-> a]
            /\ svc' = w
            /\ calls' = r.calls
            /\ result' = r.out
            /\ pc' = "returned"

CallGetUserProfile ==
    /\ pc = "idle"
    /\ \E a \in ProfileArgs, w \in ProfileAnswers :
        LET r == handle_call_tool("get_user_profile", a, w)
        IN  /\ req' = [name |-> "get_user_profile", arguments |-> a]
            /\ svc' = w
            /\ calls' = r.calls
            /\ result' = r.out
            /\ pc' = "returned"

CallGetSubredditInfo ==
    /\ pc = "idle"
    /\ \E a \in InfoArgs, w \in InfoAnswers :
        LET r == handle_call_tool("get_subreddit_info", a, w)
        IN  /\ req' = [name |-> "get_subreddit_info", arguments |-> a]
            /\ svc' = w
            /\ calls' = r.calls
            /\ result' = r.out
            /\ pc' = "returned"

UnknownNames == {"submit_post", "list_flairs"}

CallUnknownTool ==
    /\ pc = "idle"
    /\ \E n \in UnknownNames, a \in Opt("subreddit", {"python"}) :
        LET r == handle_call_tool(n, a, Idle)
        IN  /\ req' = [name |-> n, arguments |-> a]
            /\ svc' = Idle
            /\ calls' = r.calls
            /\ result' = r.out
            /\ pc' = "returned"

\* a server loop that keeps the entities fetched for the request it has served
RespondKeeping ==
    /\ pc = "returned"
    /\ pc' = "idle"
    /\ req' = NoRequest
    /\ svc' = svc
    /\ calls' = <<>>
    /\ result' = Idle

\* the server loop hands the outcome to the transport and reads the next request
Respond ==
    /\ pc = "returned"
    /\ pc' = "idle"
    /\ req' = NoRequest
    /\ svc' = Idle
    /\ calls' = <<>>
    /\ result' = Idle

Next ==
    \/ ListTools
    \/ CallGetSubredditPosts
    \/ CallGetPostDetails
    \/ CallGetPostComments
    \/ CallSearchReddit
    \/ CallGetUserProfile
    \/ CallGetSubredditInfo
    \/ CallUnknownTool
    \/ Respond

Spec == Init /\ [][Next]_vars

(************************* free texts of every length **********************)
TextLens == 0..MaxTextLen

\* get_subreddit_posts on a listing of one post whose self-text has n characters
TextListing ==
    /\ pc = "idle"
    /\ \E n \in TextLens :
        LET a == [subreddit |-> "python"]
            w == [fail |-> "none", at |-> 0, err |-> NoExc,
                  items |-> <<Post(1, "alice", "News", n, FALSE)>>]
            r == handle_call_tool("get_subreddit_posts", a, w)
        IN  /\ req' = [name |-> "get_subreddit_posts", arguments |-> a]
            /\ svc' = w
            /\ calls' = r.calls
            /\ result' = r.out
            /\ pc' = "returned"

\* search_reddit on one result whose self-text has n characters
TextSearch ==
    /\ pc = "idle"
    /\ \E n \in TextLens :
        LET a == [query |-> "tla"]
            w == [fail |-> "none", at |-> 0, err |-> NoExc,
                  items |-> <<Post(1, "alice", "News", n, FALSE)>>]
            r == handle_call_tool("search_reddit", a, w)
        IN  /\ req' = [name |-> "search_reddit", arguments |-> a]
            /\ svc' = w
            /\ calls' = r.calls
            /\ result' = r.out
            /\ pc' = "returned"

\* get_post_details with comments, on one comment whose body has n characters
TextDetails ==
    /\ pc = "idle"
    /\ \E n \in TextLens :
        LET a == [post_id |-> "abc123", include_comments |-> TRUE]
            w == [fail |-> "none", err |-> NoExc, post |-> Post(1, "alice", "News", 3, FALSE),
                  comments |-> <<Comment("bob", 5, n)>>]
            r == handle_call_tool("get_post_details", a, w)
        IN  /\ req' = [name |-> "get_post_details", arguments |-> a]
            /\ svc' = w
            /\ calls' = r.calls
            /\ result' = r.out
            /\ pc' = "returned"

TextNext ==
    \/ TextListing
    \/ TextSearch
    \/ TextDetails
    \/ Respond

TextSpec == Init /\ [][TextNext]_vars

(************************* properties **************************************)
Registered == {"get_subreddit_posts", "get_post_details", "get_post_comments",
               "search_reddit", "get_user_profile", "get_subreddit_info"}

\* a tools/call request has been served
Called == pc = "returned" /\ req.name # "tools/list"
\* a registered tool has been served and its handler has issued an external call
Served(name) == pc = "returned" /\ req.name = name /\ calls # <<>>

IsApiError(e) == e.cls = "RedditAPIException"

\* C1: whatever the tool name and the arguments, and whatever fails while the
\* invocation runs, handle_call_tool returns a text result: no exception leaves it.
C1_NoExceptionEscapes == Called => result.kind = "return"

\* C2: a name that is not a registered tool yields a text result carrying an
\* "unknown tool" error that names the tool, and no external call is issued.
C2_UnknownToolIsText ==
    (Called /\ req.name \notin Registered) =>
        /\ calls = <<>>
        /\ result.kind = "return"
        /\ result.text = <<"Error: ", "Unknown tool: " \o req.name>>

\* C3: for each tool, when a call into the Reddit client raises a RedditAPIException
\* the returned text starts with "Reddit API Error: ", which differs from the start of
\* the text returned when the same call raises an error that is no API error.
C3_ApiErrorPrefixDistinct ==
    (Called /\ req.name \in Registered /\ calls # <<>>
        /\ svc.fail = "open" /\ IsApiError(svc.err)) =>
        LET other == handle_call_tool(req.name, req.arguments,
                                      [svc EXCEPT !.err = Exc("NotFound", svc.err.msg)]).out
        IN  /\ result.kind = "return"
            /\ Head(result.text) = "Reddit API Error: "
            /\ other.kind = "return"
            /\ Head(other.text) # Head(result.text)

IsPrefix(p, s) == Len(p) <= Len(s) /\ SubSeq(s, 1, Len(p)) = p

\* C4: in get_subreddit_posts an error raised while the subreddit is obtained or
\* while its listing is iterated (at the first post or after some were read) yields
\* exactly one text naming the subreddit and the error: no partial list is returned.
C4_PostsErrorIsOneText ==
    (Served("get_subreddit_posts")
        /\ (svc.fail = "open" \/ (Len(calls) = 2 /\ ListingRaises(svc, calls[2].limit)))) =>
        result = Return(<<"Error fetching posts from r/", req.arguments.subreddit, ": ",
                          svc.err.msg>>)

\* the listing raised after one post had been read
C4_Witness ==
    /\ Served("get_subreddit_posts")
    /\ svc.fail = "iter" /\ svc.at = 2 /\ Len(calls) = 2 /\ calls[2].limit >= 2
    /\ result.kind = "return"
    /\ Head(result.text) = "Error fetching posts from r/"

\* C5: in get_user_profile, when the user fetch succeeds and the recent-submissions
\* fetch raises at any point, the text still starts with the whole profile block and
\* ends with the fallback line; it is neither empty nor an error text.
C5_ProfileSurvivesRecentFailure ==
    (Served("get_user_profile") /\ svc.fail = "none"
        /\ (svc.recent.fail = "open" \/ ListingRaises(svc.recent, 10))) =>
        /\ result.kind = "return"
        /\ IsPrefix(ProfileBlock(req.arguments.username, svc.user), result.text)
        /\ result.text[Len(result.text)] = "Recent posts not available\n"
        /\ Head(result.text) # "Error fetching user profile: "

\* the recent-submissions listing raised after one submission had been rendered
C5_Witness ==
    /\ Served("get_user_profile")
    /\ svc.fail = "none" /\ svc.recent.fail = "iter" /\ svc.recent.at = 2
    /\ result.kind = "return"
    /\ result.text[Len(result.text)] = "Recent posts not available\n"

RulesFailed(w) == w.rules.fail # "none"
ModsFailed(w) == w.mods.fail = "open" \/ ListingRaises(w.mods, 10)

\* C6: in get_subreddit_info, when the rules fetch or the moderators fetch fails at
\* any point, the text is the primary block, without the failed sub-section (no header,
\* no partial items), and with the other sub-section rendered in full.
C6_FailedSectionOmitted ==
    (Served("get_subreddit_info") /\ svc.fail = "none"
        /\ (RulesFailed(svc) \/ ModsFailed(svc))) =>
        result = Return(InfoBlock(req.arguments.subreddit, svc.subreddit)
                        \o (IF RulesFailed(svc) THEN <<>> ELSE RulesSection(svc.rules))
                        \o (IF ModsFailed(svc) THEN <<>>
                            ELSE ModeratorsSection(svc.mods)))

ToolNames == <<"get_subreddit_posts", "get_post_details", "get_post_comments",
               "search_reddit", "get_user_profile", "get_subreddit_info">>

\* the defaults the descriptor of a tool declares
DeclaredDefaults(name) ==
    LET i == CHOOSE i \in 1..Len(handle_list_tools) : handle_list_tools[i].name = name
    IN  handle_list_tools[i].defaults

\* C7: handle_list_tools returns the six descriptors in their order with the defaults
\* sort hot/best/relevance, limit 25/50/25, time_filter day/all, include_comments
\* false; and a handler called without an optional argument does what it does when
\* called with that argument set to the default its descriptor declares.
C7_DefaultsMatch ==
    /\ (pc = "returned" /\ req.name = "tools/list") =>
        /\ result.kind = "tools"
        /\ [i \in 1..Len(result.tools) |-> result.tools[i].name] = ToolNames
        /\ result.tools[1].defaults = [sort |-> "hot", time_filter |-> "day", limit |-> 25]
        /\ result.tools[2].defaults = [include_comments |-> FALSE]
        /\ result.tools[3].defaults = [sort |-> "best", limit |-> 50]
        /\ result.tools[4].defaults =
               [sort |-> "relevance", time_filter |-> "all", limit |-> 25]
        /\ DOMAIN result.tools[5].defaults = {}
        /\ DOMAIN result.tools[6].defaults = {}
    /\ (Called /\ req.name \in Registered) =>
        \A p \in DOMAIN DeclaredDefaults(req.name) \ DOMAIN req.arguments :
            handle_call_tool(req.name, (p :> DeclaredDefaults(req.name)[p]) @@ req.arguments,
                             svc) = Outcome(result, calls)

\* get_post_comments served without a limit on a thread longer than the default limit
C7_Witness ==
    /\ Served("get_post_comments")
    /\ "limit" \notin DOMAIN req.arguments
    /\ svc.fail = "none" /\ Len(svc.comments) > 50
    /\ result.kind = "return"

AllTimeFilters == {"hour", "day", "week", "month", "year", "all"}

\* C8: in get_subreddit_posts, sort 'top' passes the time_filter argument (or 'day')
\* to the fetch call; with sort hot, new or rising, invocations that differ only in
\* time_filter issue the same calls and, for the same answers, return the same text.
C8_TimeFilterOnlyForTop ==
    LET args == req.arguments
        sort == IF "sort" \in DOMAIN args THEN args.sort ELSE "hot"
    IN  /\ (Served("get_subreddit_posts") /\ Len(calls) = 2 /\ sort = "top") =>
            calls[2] = [op |-> "top",
                        time_filter |-> IF "time_filter" \in DOMAIN args
                                        THEN args.time_filter ELSE "day",
                        limit |-> calls[2].limit]
        /\ (Served("get_subreddit_posts") /\ sort \in {"hot", "new", "rising"}) =>
            /\ handle_call_tool(req.name, [k \in DOMAIN args \ {"time_filter"} |-> args[k]],
                                svc) = Outcome(result, calls)
            /\ \A tf \in AllTimeFilters :
                   handle_call_tool(req.name, ("time_filter" :> tf) @@ args, svc)
                       = Outcome(result, calls)

\* a hot listing was rendered for a request that carries a time_filter
C8_Witness ==
    /\ Served("get_subreddit_posts")
    /\ "sort" \in DOMAIN req.arguments /\ req.arguments.sort = "hot"
    /\ "time_filter" \in DOMAIN req.arguments /\ req.arguments.time_filter = "week"
    /\ svc.fail = "none" /\ Len(svc.items) >= 1
    /\ calls = <<[op |-> "subreddit", name |-> "python"],
                 [op |-> "hot", limit |-> calls[2].limit]>>
    /\ result.kind = "return"

Qualifying(comments) ==
    SelectSeq(comments, LAMBDA c : c.has_body /\ c.body # "[deleted]")

RECURSIVE Numbered(_, _)
Numbered(q, k) == IF k <= 0 THEN <<>> ELSE Numbered(q, k - 1) \o CommentSection(k, q[k])

\* C9: get_post_comments renders exactly the first min(limit, q) comments that
\* expose a body other than '[deleted]', in order, numbered 1..k by a counter that
\* skipped comments do not advance.
C9_CommentsFirstQualifying ==
    (Served("get_post_comments") /\ svc.fail = "none") =>
        LET args == req.arguments
            limit == IF "limit" \in DOMAIN args THEN args.limit ELSE 50
            sort == IF "sort" \in DOMAIN args THEN args.sort ELSE "best"
            q == Qualifying(svc.comments)
        IN  result = Return(CommentsHeader(svc.post, sort)
                            \o Numbered(q, Min(limit, Len(q))))

\* a deleted comment precedes two qualifying ones and the limit is one
C9_Witness ==
    /\ Served("get_post_comments")
    /\ svc.fail = "none" /\ Len(svc.comments) = 3 /\ svc.comments[1] = DeletedComment
    /\ Len(Qualifying(svc.comments)) = 2
    /\ "limit" \in DOMAIN req.arguments /\ req.arguments.limit = 1
    /\ result.kind = "return"
    /\ result.text[Len(result.text) - 1] = svc.comments[2].body

Expected(text, budget) ==
    IF Len(text) <= budget THEN text ELSE SubSeq(text, 1, budget) \o "..."
Has(text, piece) == \E i \in 1..Len(text) : text[i] = piece
After(text, piece) == text[(CHOOSE i \in 1..Len(text) : text[i] = piece) + 1]
\* the line of a free text: absent when the text is empty
Line(text, label, free, budget) ==
    IF free = "" THEN ~Has(text, label)
    ELSE Has(text, label) /\ After(text, label) = Expected(free, budget)

\* C10: a self-text of n characters is rendered unmodified when n <= 500 and as its
\* first 500 characters plus '...' when n > 500 in a get_subreddit_posts listing; the
\* same holds with 200 for search_reddit previews and 300 for the comment bodies of
\* get_post_details.
C10_TruncationRule ==
    /\ (Served("get_subreddit_posts") /\ svc.fail = "none" /\ Len(svc.items) = 1
            /\ calls[2].limit >= 1) =>
        /\ result.kind = "return"
        /\ Line(result.text, "- **Text:** ", svc.items[1].selftext, 500)
    /\ (Served("search_reddit") /\ svc.fail = "none" /\ Len(svc.items) = 1
            /\ calls[2].limit >= 1) =>
        /\ result.kind = "return"
        /\ Line(result.text, "- **Preview:** ", svc.items[1].selftext, 200)
    /\ (Served("get_post_details") /\ Len(calls) = 2 /\ svc.fail = "none"
            /\ Len(svc.comments) = 1 /\ svc.comments[1].has_body) =>
        /\ result.kind = "return"
        /\ result.text[Len(result.text) - 1] = Expected(svc.comments[1].body, 300)

\* a listing rendered a self-text of 501 characters
C10_Witness ==
    /\ Served("get_subreddit_posts")
    /\ svc.fail = "none" /\ Len(svc.items) = 1 /\ Len(svc.items[1].selftext) = 501
    /\ result.kind = "return"
    /\ Len(After(result.text, "- **Text:** ")) = 503

(************************* upvote ratios on a grid of thousandths **********)
MaxRatio == 1000
Ratios == 0..MaxRatio

\* get_subreddit_posts on a listing of one post whose upvote ratio is k/1000
RatioListing ==
    /\ pc = "idle"
    /\ \E k \in Ratios :
        LET a == [subreddit |-> "python"]
            w == [fail |-> "none", at |-> 0, err |-> NoExc,
                  items |-> <<[Post(1, "alice", "News", 3, FALSE) EXCEPT !.upvote_ratio = k]>>]
            r == handle_call_tool("get_subreddit_posts", a, w)
        IN  /\ req' = [name |-> "get_subreddit_posts", arguments |-> a]
            /\ svc' = w
            /\ calls' = r.calls
            /\ result' = r.out
            /\ pc' = "returned"

\* get_post_details on a post whose upvote ratio is k/1000
RatioDetails ==
    /\ pc = "idle"
    /\ \E k \in Ratios :
        LET a == [post_id |-> "abc123"]
            w == [fail |-> "none", err |-> NoExc,
                  post |-> [Post(1, "alice", "News", 3, FALSE) EXCEPT !.upvote_ratio = k],
                  comments |-> <<>>]
            r == handle_call_tool("get_post_details", a, w)
        IN  /\ req' = [name |-> "get_post_details", arguments |-> a]
            /\ svc' = w
            /\ calls' = r.calls
            /\ result' = r.out
            /\ pc' = "returned"

RatioNext ==
    \/ RatioListing
    \/ RatioDetails
    \/ Respond

RatioSpec == Init /\ [][RatioNext]_vars

Before(text, piece) == text[(CHOOSE i \in 1..Len(text) : text[i] = piece) - 1]

\* p is an integer nearest to ratio/10
IsNearest(p, ratio) == 10 * p - ratio <= 5 /\ ratio - 10 * p <= 5

Rendered(ratio) ==
    /\ result.kind = "return"
    /\ Has(result.text, "% upvoted)\n")
    /\ \E p \in 0..101 :
        /\ Before(result.text, "% upvoted)\n") = ToString(p)
        /\ IsNearest(p, ratio)

\* C11: in get_subreddit_posts and get_post_details the rendered upvote percentage is
\* the upvote ratio times 100 rounded to the nearest integer, for every ratio of the
\* grid of thousandths between 0 and 1.
C11_PercentIsNearest ==
    /\ (Served("get_subreddit_posts") /\ svc.fail = "none" /\ Len(svc.items) = 1) =>
        Rendered(svc.items[1].upvote_ratio)
    /\ (Served("get_post_details") /\ svc.fail = "none") =>
        Rendered(svc.post.upvote_ratio)

(************************* C12 .. C18 **************************************)
Lookups(cs) == SelectSeq(cs, LAMBDA c : c.op = "submission")
BareIds == {"abc123"}

\* C12: get_post_details and get_post_comments resolve post_id by URL lookup exactly
\* when post_id contains 'reddit.com' and by id lookup otherwise, in particular for a
\* bare alphanumeric id; exactly one of the two lookups is issued per invocation.
C12_LookupByUrlOrId ==
    (Served("get_post_details") \/ Served("get_post_comments")) =>
        LET post_id == req.arguments.post_id
            l == Lookups(calls)
        IN  /\ Len(l) = 1
            /\ l[1] = calls[1]
            /\ l[1].value = post_id
            /\ l[1].by = "url" <=> Contains(post_id, "reddit.com")
            /\ l[1].by = "id" <=> ~Contains(post_id, "reddit.com")
            /\ post_id \in BareIds => l[1].by = "id"

\* a URL of another domain was looked up by id
C12_Witness ==
    /\ Served("get_post_comments")
    /\ req.arguments.post_id = "https://redd.it/abc123"
    /\ calls[1] = [op |-> "submission", by |-> "id", value |-> "https://redd.it/abc123"]
    /\ result.kind = "return"

IsLine(text) == \A i \in 1..Len(text) : ~Contains(text[i], "\n")

\* C13: in search_reddit, scoped or global, a search that yields no result returns
\* exactly one line saying that no results were found for the query, without results
\* header or list; when a result is yielded that message is not returned.
C13_NoResultsLine ==
    (Served("search_reddit") /\ svc.fail = "none") =>
        LET n == Min(calls[2].limit, Len(svc.items))
        IN  /\ result.kind = "return"
            /\ n = 0 =>
                /\ result.text = <<"No results found for '", req.arguments.query, "'">>
                /\ IsLine(result.text)
                /\ ~Has(result.text, "## Search Results for '")
                /\ ~Has(result.text, "### ")
            /\ n > 0 =>
                /\ Head(result.text) # "No results found for '"
                /\ Has(result.text, "## Search Results for '")
                /\ Has(result.text, "### ")

\* a search scoped to a subreddit yielded nothing
C13_Witness ==
    /\ Served("search_reddit")
    /\ "subreddit" \in DOMAIN req.arguments /\ req.arguments.subreddit = "python"
    /\ svc.fail = "none" /\ svc.items = <<>>
    /\ calls[2].limit > 0
    /\ result = Return(<<"No results found for '", "tla", "'">>)

NoDuplicates(cs) == \A i, j \in 1..Len(cs) : cs[i] = cs[j] => i = j

ErrorTexts ==
    {"Error fetching posts from r/", "Error fetching post details: ",
     "Error fetching comments: ", "Error searching Reddit: ",
     "Error fetching user profile: ", "Error fetching subreddit info: "}

IsErrorText(out) ==
    out.kind = "return" /\ Head(out.text) \in ErrorTexts /\ out.text[Len(out.text)] = svc.err.msg

\* C14: within one invocation a handler issues each of its external fetches at most
\* once, and when a primary fetch fails (the entity lookup of any handler, the listing
\* of get_subreddit_posts or of search_reddit) the invocation ends with an error text
\* and the failed call is the last one issued.
C14_NoRetry ==
    (Called /\ req.name \in Registered /\ calls # <<>>) =>
        /\ NoDuplicates(calls)
        /\ svc.fail = "open" => (Len(calls) = 1 /\ IsErrorText(result))
        /\ (req.name \in {"get_subreddit_posts", "search_reddit"} /\ svc.fail = "iter"
                /\ svc.at <= calls[2].limit) =>
            (Len(calls) = 2 /\ IsErrorText(result))
        /\ (req.name = "get_post_comments" /\ svc.fail = "comments") =>
            (Len(calls) = 2 /\ IsErrorText(result))

\* the listing of a search raised at its first item, after the subreddit was obtained
C14_Witness ==
    /\ Served("search_reddit")
    /\ svc.fail = "iter" /\ svc.at = 1 /\ Len(calls) = 2 /\ calls[2].limit >= 1
    /\ calls[2].op = "search"
    /\ result = Return(<<"Error searching Reddit: ", svc.err.msg>>)

\* the first external call fetches the entity that the request itself names
FetchesOwnEntity ==
    LET a == req.arguments
        c == calls[1]
    IN  IF req.name \in {"get_subreddit_posts", "get_subreddit_info"}
        THEN c = [op |-> "subreddit", name |-> a.subreddit]
        ELSE IF req.name = "search_reddit"
        THEN c = [op |-> "subreddit",
                  name |-> IF "subreddit" \in DOMAIN a /\ a.subreddit # ""
                           THEN a.subreddit ELSE "all"]
        ELSE IF req.name = "get_user_profile"
        THEN c = [op |-> "redditor", name |-> a.username]
        ELSE c.op = "submission" /\ c.value = a.post_id

BodyBearing(comments) == SelectSeq(comments, LAMBDA c : c.has_body)

\* C16: get_post_details with include_comments true renders the first 10 comments of
\* the top-level sequence that expose a body, a comment without a body being skipped
\* without lowering that number, each body cut to 300 characters; with
\* include_comments false or omitted no comment is fetched or rendered.
C16_TopCommentsFirstTenWithBody ==
    (Served("get_post_details") /\ svc.fail = "none") =>
        LET header == DetailsHeader(svc.post)
            q == BodyBearing(svc.comments)
            k == Min(10, Len(q))
            h == Len(header) + 1
        IN  IF Get(req.arguments, "include_comments", FALSE)
            THEN /\ result.kind = "return"
                 /\ SubSeq(result.text, 1, h) = header \o <<"### Top Comments\n\n">>
                 /\ Len(result.text) = h + 10 * k
                 /\ \A j \in 1..k :
                        result.text[h + 10 * (j - 1) + 9] = Expected(q[j].body, 300)
            ELSE /\ result = Return(header)
                 /\ Len(calls) = 1
                 /\ calls[1].op = "submission"

\* C17: get_subreddit_info renders each rule as its running number, its short name
\* and its description under the truncation rule with budget 200: cut to 200
\* characters plus the ellipsis marker when longer, without marker otherwise.
C17_RuleDescriptionTruncation ==
    (Served("get_subreddit_info") /\ svc.fail = "none" /\ svc.rules.fail = "none"
        /\ Len(svc.rules.items) >= 1) =>
        LET h == Len(InfoBlock(req.arguments.subreddit, svc.subreddit)) + 1
            rules == svc.rules.items
        IN  /\ result.kind = "return"
            /\ result.text[h] = "\n### Rules\n\n"
            /\ \A i \in 1..Len(rules) :
                LET b == h + 6 * (i - 1)
                IN  /\ result.text[b + 1] = ToString(i)
                    /\ result.text[b + 3] = rules[i].short_name
                    /\ result.text[b + 5] \o result.text[b + 6]
                           = Expected(rules[i].description, 200) \o "\n"

KnownSorts == {"hot", "new", "rising", "top"}

\* the positions of the section headings of a listing, in order
Headings(text) == SelectSeq([i \in 1..Len(text) |-> i], LAMBDA i : text[i] = "### ")

\* C18: in get_subreddit_posts a sort value outside {hot, new, rising, top} makes the
\* handler issue the fetch of sort 'hot', with the given limit and without
\* time_filter, and return a formatted listing instead of an error; the posts are
\* numbered 1..n in the order in which the service yielded them.
C18_UnknownSortFallsBackToHot ==
    (Served("get_subreddit_posts") /\ svc.fail # "open") =>
        LET args == req.arguments
            sort == Get(args, "sort", "hot")
            limit == Get(args, "limit", 25)
            n == Min(limit, Len(svc.items))
            at == Headings(result.text)
        IN  /\ sort \notin KnownSorts =>
                /\ calls = <<[op |-> "subreddit", name |-> args.subreddit],
                             [op |-> "hot", limit |-> limit]>>
                /\ calls = handle_call_tool(req.name, ("sort" :> "hot") @@ args, svc).calls
            /\ svc.fail = "none" =>
                /\ result.kind = "return"
                /\ SubSeq(result.text, 1, 5)
                       = <<"## Posts from r/", args.subreddit, " (sorted by ", sort, ")\n\n">>
                /\ Len(at) = n
                /\ \A j \in 1..n :
                    /\ result.text[at[j] + 1] = ToString(j)
                    /\ result.text[at[j] + 3] = svc.items[j].title

\* two different posts were listed under a sort the handler does not know
C18_Witness ==
    /\ Served("get_subreddit_posts")
    /\ "sort" \in DOMAIN req.arguments /\ req.arguments.sort = "controversial"
    /\ "time_filter" \in DOMAIN req.arguments
    /\ svc.fail = "none" /\ Len(svc.items) = 2 /\ svc.items[1].title = "title2"
    /\ svc.items[2].title = "title1"
    /\ calls[2] = [op |-> "hot", limit |-> 2]
    /\ result.kind = "return"
    /\ Len(Headings(result.text)) = 2

(************************* simple_server.py: the command loop ***************)
MaxStdin == 2
MaxEofReads == 2

Char(s, i) == SubSeq(s, i, i)
Rest(s, i) == SubSeq(s, i, Len(s))

\* str.startswith
startswith(s, prefix) == Len(prefix) <= Len(s) /\ SubSeq(s, 1, Len(prefix)) = prefix

RECURSIVE lstrip(_)
lstrip(s) == IF Len(s) > 0 /\ Char(s, 1) = " " THEN lstrip(Rest(s, 2)) ELSE s

RECURSIVE rstrip(_)
rstrip(s) ==
    IF Len(s) > 0 /\ Char(s, Len(s)) = " " THEN rstrip(SubSeq(s, 1, Len(s) - 1)) ELSE s

\* str.strip
strip(s) == rstrip(lstrip(s))

Uppers == "ABCDEFGHIJKLMNOPQRSTUVWXYZ"
Lowers == "abcdefghijklmnopqrstuvwxyz"
Digits == "0123456789"
In(c, alphabet) == \E i \in 1..Len(alphabet) : Char(alphabet, i) = c
IndexIn(c, alphabet) == CHOOSE i \in 1..Len(alphabet) : Char(alphabet, i) = c

\* str.lower
RECURSIVE lower(_)
lower(s) ==
    IF Len(s) = 0 THEN ""
    ELSE (IF In(Char(s, 1), Uppers) THEN Char(Lowers, IndexIn(Char(s, 1), Uppers))
          ELSE Char(s, 1)) \o lower(Rest(s, 2))

\* the length of the longest prefix of s whose characters are all inside (or all
\* outside) the alphabet
RECURSIVE Run(_, _, _)
Run(s, inside, alphabet) ==
    IF Len(s) > 0 /\ (In(Char(s, 1), alphabet) <=> inside)
    THEN 1 + Run(Rest(s, 2), inside, alphabet) ELSE 0

\* str.split()
RECURSIVE split(_)
split(s) ==
    LET t == lstrip(s)
        n == Run(t, FALSE, " ")
    IN  IF Len(t) = 0 THEN <<>> ELSE <<SubSeq(t, 1, n)>> \o split(Rest(t, n + 1))

\* ' '.join(words)
RECURSIVE join(_)
join(words) ==
    IF Len(words) = 0 THEN ""
    ELSE IF Len(words) = 1 THEN words[1]
    ELSE words[1] \o " " \o join(Tail(words))

RECURSIVE Decimal(_)
Decimal(s) ==
    IF Len(s) = 0 THEN 0
    ELSE 10 * Decimal(SubSeq(s, 1, Len(s) - 1)) + IndexIn(Char(s, Len(s)), Digits) - 1

\* int(word): the value, or ValueError
int(word) ==
    LET signed == Len(word) > 0 /\ Char(word, 1) \in {"+", "-"}
        digits == IF signed THEN Rest(word, 2) ELSE word
    IN  IF Len(digits) = 0 \/ Run(digits, TRUE, Digits) # Len(digits)
        THEN [ok |-> FALSE, value |-> 0]
        ELSE [ok |-> TRUE,
              value |-> IF signed /\ Char(word, 1) = "-" THEN 0 - Decimal(digits)
                        ELSE Decimal(digits)]

WordChars == Uppers \o Lowers \o Digits \o "_"
IsWord(c) == In(c, WordChars)

PostPrefix == "post my first post on reddit \""

\* re.match(r'post my first post on reddit "(.+)" to (\w+)(?: with flair (\w+))?', line)
match(line) ==
    LET from == Len(PostPrefix) + 1
        Closes(i) == /\ SubSeq(line, i, i + 4) = "\" to "
                     /\ IsWord(Char(line, i + 5))
        ends == {i \in (from + 1)..(Len(line) - 5) : Closes(i)}
        end == CHOOSE i \in ends : \A j \in ends : j <= i
        after == Rest(line, end + 5)
        n == Run(after, TRUE, WordChars)
        tail == Rest(after, n + 1)
        flair == Rest(tail, Len(" with flair ") + 1)
    IN  IF ~startswith(line, PostPrefix) \/ ends = {}
        THEN [matched |-> FALSE, body |-> "", subreddit |-> "", flair_id |-> None]
        ELSE [matched |-> TRUE,
              body |-> SubSeq(line, from, end - 1),
              subreddit |-> SubSeq(after, 1, n),
              flair_id |-> IF startswith(tail, " with flair ")
                                /\ Run(flair, TRUE, WordChars) > 0
                           THEN SubSeq(flair, 1, Run(flair, TRUE, WordChars)) ELSE None]

\* the lines the terminal may deliver
Lines ==
    {"list flairs for python", "  List  Flairs for Python ", "list flairs for",
     "get me top 2 post from python", "get me top x post from python", "get me top",
     "post my first post on reddit \"hi\" to python with flair f1",
     "post my first post on reddit hi", "hello", ""}
Stdins == SeqsUpTo(Lines, MaxStdin)

\* the answers of Reddit to the one call a command makes
CliAnswers ==
    {[fail |-> FALSE, err |-> NoExc]} \cup {[fail |-> TRUE, err |-> e] : e \in Errors}
CliPosts == <<Post(1, "alice", "News", 3, FALSE), Post(2, None, None, 0, TRUE)>>

Printed(lines) == [prints |-> lines, exc |-> NoExc]
Raised(lines, e) == [prints |-> lines, exc |-> e]

list_flairs(subreddit_name, w) ==
    LET header == "Available flairs for r/" \o subreddit_name \o ":"
    IN  IF w.fail THEN Raised(<<header>>, w.err) ELSE Printed(<<header, "flair1">>)

get_top_posts(subreddit_name, limit, w) ==
    LET posts == Slice(CliPosts, limit)
    IN  IF w.fail THEN Raised(<<>>, w.err)
        ELSE Printed([i \in 1..Len(posts) |->
                        posts[i].title \o " (Score: " \o ToString(posts[i].score)
                        \o ") - " \o posts[i].url])

post_to_reddit(subreddit_name, title, body, flair_id, w) ==
    IF w.fail THEN Raised(<<>>, w.err)
    ELSE Printed(<<"https://reddit.com/r/" \o subreddit_name \o "/comments/new1/">>)

\* an except clause that lets the end of input through
CatchesNoEndOfInput(e) == "Exception" \in Bases(e.cls) /\ e.cls # "EOFError"

\* except Exception as e
Catches(e) == "Exception" \in Bases(e.cls)

CliInit ==
    /\ pc = "input"
    /\ req = [line |-> "", cmd |-> ""]
    /\ svc \in {[stdin |-> s, eof_reads |-> 0] : s \in Stdins}
    /\ calls = <<>>
    /\ result = Printed(<<"Simple Reddit CLI Server started. Type your command:">>)

\* line = input("> ").strip() and the two debug prints
ReadLine ==
    /\ pc = "input"
    /\ svc.stdin # <<>>
    /\ LET line == strip(Head(svc.stdin))
           cmd == join(split(lower(line)))
       IN  /\ req' = [line |-> line, cmd |-> cmd]
           /\ result' = Printed(<<"[DEBUG] Received line: '" \o line \o "'",
                                  "[DEBUG] Parsed command: '" \o cmd \o "'">>)
    /\ svc' = [svc EXCEPT !.stdin = Tail(svc.stdin)]
    /\ calls' = <<>>
    /\ pc' = "command"

\* input("> ") at the end of the input
ReadEndOfInput ==
    /\ pc = "input"
    /\ svc.stdin = <<>>
    /\ svc' = [svc EXCEPT !.eof_reads = Min(svc.eof_reads + 1, MaxEofReads)]
    /\ result' = Raised(<<>>, Exc("EOFError", "EOF when reading a line"))
    /\ pc' = "except"
    /\ UNCHANGED <<req, calls>>

\* where a command ends: back at the head of the loop, or in the except clause
Resume(out) == IF out.exc = NoExc THEN "input" ELSE "except"

\* the branch 'list flairs for'
CmdListFlairs ==
    /\ pc = "command"
    /\ startswith(req.cmd, "list flairs for")
    /\ LET parts == split(req.line)
       IN  IF Len(parts) >= 4
           THEN \E w \in CliAnswers :
                   LET out == list_flairs(parts[Len(parts)], w)
                   IN  /\ calls' = <<[op |-> "list_flairs", name |-> parts[Len(parts)]]>>
                       /\ result' = out
                       /\ pc' = Resume(out)
           ELSE /\ calls' = <<>>
                /\ result' = Printed(<<"Usage: list flairs for <subreddit>">>)
                /\ pc' = "input"
    /\ UNCHANGED <<req, svc>>

\* the branch 'get me top'
CmdGetTop ==
    /\ pc = "command"
    /\ ~startswith(req.cmd, "list flairs for")
    /\ startswith(req.line, "get me top")
    /\ LET parts == split(req.line)
       IN  IF Len(parts) < 4 \/ ~int(parts[4]).ok
           THEN /\ calls' = <<>>
                /\ result' = Printed(<<"Usage: get me top <N> post from <subreddit>">>)
                /\ pc' = "input"
           ELSE \E w \in CliAnswers :
                   LET limit == int(parts[4]).value
                       out == get_top_posts(parts[Len(parts)], limit, w)
                   IN  /\ calls' = <<[op |-> "get_top_posts", name |-> parts[Len(parts)],
                                       limit |-> limit]>>
                       /\ result' = out
                       /\ pc' = Resume(out)
    /\ UNCHANGED <<req, svc>>

\* the branch 'post my first post on reddit'
CmdPost ==
    /\ pc = "command"
    /\ ~startswith(req.cmd, "list flairs for")
    /\ ~startswith(req.line, "get me top")
    /\ startswith(req.line, "post my first post on reddit")
    /\ LET m == match(req.line)
       IN  IF m.matched
           THEN \E w \in CliAnswers :
                   LET out == post_to_reddit(m.subreddit, "My First Post from MCP", m.body,
                                             m.flair_id, w)
                   IN  /\ calls' = <<[op |-> "post_to_reddit", name |-> m.subreddit,
                                       body |-> m.body, flair_id |-> m.flair_id]>>
                       /\ result' = IF out.exc = NoExc
                                     THEN Printed(<<"Posted: " \o out.prints[1]>>)
                                     ELSE Printed(<<"Error posting: " \o out.exc.msg>>)
           ELSE /\ calls' = <<>>
                /\ result' = Printed(<<"Usage: post my first post on reddit \"<body>\" to <subreddit> [with flair <flair_id>]">>)
    /\ pc' = "input"
    /\ UNCHANGED <<req, svc>>

\* the else branch
CmdUnknown ==
    /\ pc = "command"
    /\ ~startswith(req.cmd, "list flairs for")
    /\ ~startswith(req.line, "get me top")
    /\ ~startswith(req.line, "post my first post on reddit")
    /\ result' = Printed(<<"Unknown command. Try: get me top 5 post from python or post my first post on reddit \"hello\" to python">>)
    /\ pc' = "input"
    /\ UNCHANGED <<req, svc, calls>>

\* the except clause of the loop body; an exception it does not catch leaves main
ExceptClause ==
    /\ pc = "except"
    /\ IF Catches(result.exc)
       THEN /\ result' = Printed(<<"Error: " \o result.exc.msg>>)
            /\ pc' = "input"
       ELSE /\ result' = result
            /\ pc' = "exited"
    /\ UNCHANGED <<req, svc, calls>>

CliNext ==
    \/ ReadLine
    \/ ReadEndOfInput
    \/ CmdListFlairs
    \/ CmdGetTop
    \/ CmdPost
    \/ CmdUnknown
    \/ ExceptClause

CliSpec == CliInit /\ [][CliNext]_vars

\* C19: the command loop of simple_server.main never ends on its own: after every
\* command (recognised, unknown, malformed, or one whose Reddit call raises) control
\* returns to reading the next line, and an error raised by the read itself, such as
\* the end of input, is caught and the read is attempted again, so that with exhausted
\* input the failing read is repeated instead of the loop ending.
C19_LoopNeverEnds ==
    /\ [](pc \in {"input", "command", "except"})
    /\ [][pc = "command" => pc' \in {"input", "except"}]_vars
    /\ [][pc = "except" => pc' = "input"]_vars
    /\ [][(pc = "input" /\ svc.stdin = <<>>) =>
            (pc' = "except" /\ result'.exc.cls = "EOFError" /\ svc'.stdin = <<>>)]_vars

\* the read has met the end of input twice and is about to be attempted again
C19_Witness ==
    /\ pc = "input"
    /\ svc.stdin = <<>> /\ svc.eof_reads >= 2
    /\ result = Printed(<<"Error: EOF when reading a line">>)

====
